---- MODULE Spec2Model ----
(***************************************************************************)
(* git-unmerged: the analyzer (src/git_unmerged/analyzer.py) and the       *)
(* command-line entry point (src/git_unmerged/cli.py).                     *)
(*                                                                         *)
(* Text is a sequence of tokens.  A token is a piece of text that the      *)
(* program never looks inside: "origin", "/", "|", " ", "\n", "HEAD", a    *)
(* date field, a word.  The string operations of the program (split,       *)
(* strip, replace, startswith, in) are modelled on these sequences with    *)
(* their Python meaning.                                                   *)
(***************************************************************************)
EXTENDS Integers, Sequences, FiniteSets, TLC

----------------------------------------------------------------------------
(* Python string operations *)

Whitespace == {" ", "\n"}

\* s.startswith(p)
StartsWith(s, p) ==
    /\ Len(p) <= Len(s)
    /\ SubSeq(s, 1, Len(p)) = p

\* p in s  (substring test)
Contains(s, p) ==
    \E i \in 1..(Len(s) - Len(p) + 1) : SubSeq(s, i, i + Len(p) - 1) = p

Drop(s, n) == SubSeq(s, n + 1, Len(s))

\* s.replace(old, new): every non-overlapping occurrence, left to right
RECURSIVE Replace(_, _, _)
Replace(s, old, new) ==
    IF s = <<>> THEN <<>>
    ELSE IF StartsWith(s, old) THEN new \o Replace(Drop(s, Len(old)), old, new)
    ELSE <<Head(s)>> \o Replace(Tail(s), old, new)

\* s.strip()
RECURSIVE LStrip(_)
LStrip(s) ==
    IF s # <<>> /\ Head(s) \in Whitespace THEN LStrip(Tail(s)) ELSE s

RECURSIVE RStrip(_)
RStrip(s) ==
    IF s # <<>> /\ s[Len(s)] \in Whitespace
    THEN RStrip(SubSeq(s, 1, Len(s) - 1)) ELSE s

Strip(s) == RStrip(LStrip(s))

\* s.split(sep) for a one-token separator: never an empty list
RECURSIVE SplitFrom(_, _, _)
SplitFrom(s, sep, cur) ==
    IF s = <<>> THEN <<cur>>
    ELSE IF Head(s) = sep THEN <<cur>> \o SplitFrom(Tail(s), sep, <<>>)
    ELSE SplitFrom(Tail(s), sep, Append(cur, Head(s)))

Split(s, sep) == SplitFrom(s, sep, <<>>)

Range(f) == {f[i] : i \in DOMAIN f}

----------------------------------------------------------------------------
(* The repository the analyzer runs in: commits, refs and the clock *)

ORIGIN == <<"origin", "/">>

\* The commits: short hash, author name, author email, subject, commit date
Commit(c) ==
    CASE c = "c0" -> [h |-> <<"a000">>, an |-> <<"Alice">>, ae |-> <<"alice@x">>,
                      s |-> <<"init">>, ci |-> <<"2024-01-01", " ", "00:00:00", " ", "+0000">>]
      [] c = "cd" -> [h |-> <<"a00d">>, an |-> <<"Bob">>, ae |-> <<"bob@x">>,
                      s |-> <<"release">>, ci |-> <<"2024-01-02", " ", "12:00:00", " ", "+0000">>]
      [] c = "c1" -> [h |-> <<"a001">>, an |-> <<"Alice">>, ae |-> <<"alice@x">>,
                      s |-> <<"add", " ", "login">>, ci |-> <<"2024-01-01", " ", "12:00:00", " ", "+0000">>]
      [] c = "c2" -> [h |-> <<"a002">>, an |-> <<"Bob">>, ae |-> <<"bob@x">>,
                      s |-> <<"add", " ", "tests">>, ci |-> <<"2024-01-02", " ", "00:00:00", " ", "+0000">>]
      [] c = "c3" -> [h |-> <<"a003">>, an |-> <<"Alice">>, ae |-> <<"alice@x">>,
                      s |-> <<"fix">>, ci |-> <<"2024-01-02", " ", "00:00:00", " ", "+0000">>]
      [] c = "cp" -> [h |-> <<"a00f">>, an |-> <<"Carol">>, ae |-> <<"carol@x">>,
                      s |-> <<"a", "|", "b">>, ci |-> <<"2024-01-02", " ", "00:00:00", " ", "+0000">>]

\* Calendar: the value of a date field and of a time field, in half days
DateValue(tok) ==
    CASE tok = "2024-01-01" -> 2
      [] tok = "2024-01-02" -> 4
      [] tok = "2024-01-03" -> 6
      [] OTHER -> -1

TimeValue(tok) ==
    CASE tok = "00:00:00" -> 0
      [] tok = "12:00:00" -> 1
      [] OTHER -> -1

\* The UTC offset field, in half days
OffsetValue(tok) ==
    CASE tok = "+0000" -> 0
      [] tok = "+1200" -> 1
      [] tok = "-1200" -> -1
      [] OTHER -> 0

\* The instant an ISO-8601 date with its offset denotes (UTC, half days)
Instant(date_str) ==
    DateValue(date_str[1]) + TimeValue(date_str[3]) - OffsetValue(date_str[5])

\* datetime.now() of the machine, whose local time is UTC
NowText == <<"2024-01-03", " ", "00:00:00">>
Now == DateValue(NowText[1]) + TimeValue(NowText[3])

\* timedelta(days=n), in half days
Timedelta(days) == days + days

\* Remote-tracking branches a repository may hold.  ref: the short refname,
\* hist: the commits reachable from the tip (newest first), date: the
\* committer date of the tip as git prints it, ord: its place in refname order.
OriginHead ==
    [ref |-> <<"origin">>, hist |-> <<"cd", "c0">>, ord |-> 1,
     date |-> <<"2024-01-02", " ", "12:00:00", " ", "+0000">>]
OriginDev ==
    [ref |-> ORIGIN \o <<"dev">>, hist |-> <<"cd", "c0">>, ord |-> 2,
     date |-> <<"2024-01-02", " ", "12:00:00", " ", "+0000">>]
OriginFeatureA ==
    [ref |-> ORIGIN \o <<"feature", "/", "a">>, hist |-> <<"c3", "c2", "c1", "cd", "c0">>, ord |-> 3,
     date |-> <<"2024-01-02", " ", "00:00:00", " ", "-1200">>]
OriginFeatureOriginA ==
    [ref |-> ORIGIN \o <<"feature", "/">> \o ORIGIN \o <<"a">>, hist |-> <<"cd", "c0">>, ord |-> 4,
     date |-> <<"2024-01-02", " ", "12:00:00", " ", "+0000">>]
OriginFixHeader ==
    [ref |-> ORIGIN \o <<"fix-", "HEAD", "ER">>, hist |-> <<"c1", "cd", "c0">>, ord |-> 5,
     date |-> <<"2024-01-02", " ", "12:00:00", " ", "+0000">>]
OriginHotfix ==
    [ref |-> ORIGIN \o <<"hotfix">>, hist |-> <<"cd", "c0">>, ord |-> 6,
     date |-> <<"2024-01-02", " ", "12:00:00", " ", "+0000">>]
OriginPipe ==
    [ref |-> ORIGIN \o <<"pipe">>, hist |-> <<"cp", "c1", "cd", "c0">>, ord |-> 7,
     date |-> <<"2024-01-02", " ", "12:00:00", " ", "+1200">>]
OriginTz ==
    [ref |-> ORIGIN \o <<"tz">>, hist |-> <<"c2", "cd", "c0">>, ord |-> 8,
     date |-> <<"2024-01-03", " ", "00:00:00", " ", "+1200">>]
OriginXEld ==
    [ref |-> ORIGIN \o <<"x", "-eld">>, hist |-> <<"c1", "cd", "c0">>, ord |-> 9,
     date |-> <<"2024-01-02", " ", "12:00:00", " ", "+0000">>]
UpstreamDev ==
    [ref |-> <<"upstream", "/", "dev">>, hist |-> <<"c0">>, ord |-> 10,
     date |-> <<"2024-01-02", " ", "00:00:00", " ", "+0000">>]

\* The local branch dev, which tracks origin/dev
LocalDev == [ref |-> <<"dev">>, hist |-> <<"cd", "c0">>, ord |-> 0,
             date |-> <<"2024-01-02", " ", "12:00:00", " ", "+0000">>]

Universe ==
    {OriginFeatureA, OriginFeatureOriginA, OriginFixHeader, OriginHotfix,
     OriginPipe, OriginTz, OriginXEld, UpstreamDev}

\* Bounds of the model
MaxBranches == 2
MaxFailures == 1

\* The sets of remote-tracking branches of the repositories considered:
\* clones of origin, which have origin/HEAD and origin/dev, with at most
\* MaxBranches other branches
Repositories ==
    {S \cup {OriginHead, OriginDev} :
        S \in {T \in SUBSET Universe : Cardinality(T) <= MaxBranches}}


----------------------------------------------------------------------------
(* git, as the analyzer's command lines use it *)

\* Every ref git can resolve: the remote-tracking branches and local dev
AllRefs(tracking) == tracking \cup {LocalDev}

Resolves(tracking, name) == \E b \in AllRefs(tracking) : b.ref = name

RefOf(tracking, name) == CHOOSE b \in AllRefs(tracking) : b.ref = name

\* The commits of base..branch: reachable from branch and not from base,
\* newest first
RevList(tracking, base, branch) ==
    LET baseHist == Range(RefOf(tracking, base).hist)
        IsUnmerged(c) == c \notin baseHist
    IN SelectSeq(RefOf(tracking, branch).hist, IsUnmerged)

\* Lines as a process writes them: each one ended by a newline
RECURSIVE Unlines(_)
Unlines(lines) ==
    IF lines = <<>> THEN <<>> ELSE lines[1] \o <<"\n">> \o Unlines(Tail(lines))

\* The remote-tracking branches in listing order: by refname
RECURSIVE SortedByOrd(_)
SortedByOrd(S) ==
    IF S = {} THEN <<>>
    ELSE LET b == CHOOSE x \in S : \A y \in S : x.ord <= y.ord
         IN <<b>> \o SortedByOrd(S \ {b})

ListingOrder(tracking) == SortedByOrd(tracking)

\* git branch -r --format="%(refname:short)|%(committerdate:iso8601)"
BranchFormat(b) == b.ref \o <<"|">> \o b.date

\* git log --oneline
OnelineFormat(c) == Commit(c).h \o <<" ">> \o Commit(c).s

\* git log --format="%h|%an|%ae|%s|%ci"
DetailsFormat(c) ==
    Commit(c).h \o <<"|">> \o Commit(c).an \o <<"|">> \o Commit(c).ae \o <<"|">>
        \o Commit(c).s \o <<"|">> \o Commit(c).ci

\* git log --format="%an <%ae>"
AuthorFormat(c) == Commit(c).an \o <<" ", "<">> \o Commit(c).ae \o <<">">>

FormatLine(kind, c) ==
    CASE kind = "log_oneline" -> OnelineFormat(c)
      [] kind = "log_details" -> DetailsFormat(c)
      [] kind = "log_authors" -> AuthorFormat(c)

MapSeq(s, Op(_)) == [i \in 1..Len(s) |-> Op(s[i])]

\* A command line: kind is fetch, branch, log_oneline, log_details or
\* log_authors; base and branch are the two ends of the range of a log
FetchCmd == [kind |-> "fetch", base |-> <<>>, branch |-> <<>>]
BranchCmd == [kind |-> "branch", base |-> <<>>, branch |-> <<>>]
LogCmd(kind, base, branch) == [kind |-> kind, base |-> base, branch |-> branch]

\* Whether git can carry the command out: a log needs both ends to resolve
GitSucceeds(tracking, cmd) ==
    cmd.kind \in {"log_oneline", "log_details", "log_authors"}
        => Resolves(tracking, cmd.base) /\ Resolves(tracking, cmd.branch)

\* What git writes to its standard output when it runs to the end
GitStdout(tracking, cmd) ==
    IF ~GitSucceeds(tracking, cmd) \/ cmd.kind = "fetch" THEN <<>>
    ELSE IF cmd.kind = "branch"
    THEN Unlines(MapSeq(ListingOrder(tracking), BranchFormat))
    ELSE LET Line(c) == FormatLine(cmd.kind, c)
         IN Unlines(MapSeq(RevList(tracking, cmd.base, cmd.branch), Line))

\* The first line of an output, as written before the process died
FirstLine(out) == Split(out, "\n")[1] \o <<"\n">>

\* How an execution of a command ends when nothing outside the repository
\* goes wrong: exit status 0, or git's own non-zero exit (nothing written)
NaturalOutcome(tracking, cmd) ==
    [kind |-> IF GitSucceeds(tracking, cmd) THEN "ok" ELSE "exit",
     stdout |-> GitStdout(tracking, cmd)]

\* The ways one execution of a command can end.  kind is "ok" (exit status
\* 0), "exit" (non-zero exit status, with whatever was written before) or
\* "exception" (the process could not be started); may_fail allows the
\* failures that do not follow from the repository itself: a command that
\* writes nothing exits with a non-zero status, one that writes output
\* does not start, or dies after its first line.
Outcomes(tracking, cmd, may_fail) ==
    LET natural == NaturalOutcome(tracking, cmd)
    IN {natural}
       \cup (IF may_fail
             THEN IF natural.stdout = <<>>
                  THEN {[kind |-> "exit", stdout |-> <<>>]}
                  ELSE {[kind |-> "exception", stdout |-> <<>>],
                        [kind |-> "exit", stdout |-> FirstLine(natural.stdout)]}
             ELSE {})

Failed(outcome) == outcome.kind # "ok"

----------------------------------------------------------------------------
(* GitUnmerged (analyzer.py) *)

\* Optional[str]
None == [some |-> FALSE, val |-> <<>>]
Some(v) == [some |-> TRUE, val |-> v]

\* The truth value Python gives an Optional[str]: None and "" are false
Truthy(opt) == opt.some /\ opt.val # <<>>

\* GitUnmerged.__init__
GitUnmerged(base_branch, ignore_pattern, days) ==
    [base_branch |-> base_branch, ignore_pattern |-> ignore_pattern, days |-> days]

\* run_git_command: the stripped standard output, whatever the exit status;
\* "" when running the process raised
run_git_command(outcome) ==
    IF outcome.kind = "exception" THEN <<>> ELSE Strip(outcome.stdout)

\* datetime.fromisoformat, of the date and time fields joined by a space
IsIsoFormat(date_part) ==
    /\ Len(date_part) = 3
    /\ DateValue(date_part[1]) >= 0
    /\ date_part[2] = " "
    /\ TimeValue(date_part[3]) >= 0

fromisoformat(date_part) == DateValue(date_part[1]) + TimeValue(date_part[3])

cutoff_date(self) == Now - Timedelta(self.days)

\* Ignored, as it would be if the pattern were looked for at the start of the
\* line only
IgnoredAtStart(self, line) ==
    Truthy(self.ignore_pattern) /\ StartsWith(line, self.ignore_pattern.val)

\* get_recent_branches, lines 56-58: the line is skipped by the ignore
\* pattern
Ignored(self, line) ==
    Truthy(self.ignore_pattern) /\ Contains(line, self.ignore_pattern.val)

\* get_recent_branches, the body of the loop: which way one line of the
\* listing leaves it.  "keep" appends an entry, every other value is a
\* continue (or a comparison that fails).
LineVerdict(self, line) ==
    IF line = <<>> THEN "empty"
    ELSE IF Ignored(self, line) THEN "ignored"
    ELSE LET parts == Split(line, "|") IN
    IF Len(parts) # 2 THEN "shape"
    ELSE LET branch_name == Strip(parts[1])
             date_str == Strip(parts[2])
             fields == Split(date_str, " ") IN
    IF branch_name = <<"origin">> \/ Contains(branch_name, <<"HEAD">>) THEN "symbolic"
    ELSE IF Len(fields) < 2 THEN "unparsed"
    ELSE LET date_part == fields[1] \o <<" ">> \o fields[2] IN
    IF ~IsIsoFormat(date_part) THEN "unparsed"
    ELSE IF fromisoformat(date_part) >= cutoff_date(self) THEN "keep"
    ELSE "old"

\* The entry get_recent_branches appends for a kept line
BranchEntry(line) ==
    LET parts == Split(line, "|")
        branch_name == Strip(parts[1])
        date_str == Strip(parts[2])
        fields == Split(date_str, " ")
    IN [name |-> Replace(branch_name, ORIGIN, <<>>),
        full_name |-> branch_name,
        date |-> fromisoformat(fields[1] \o <<" ">> \o fields[2]),
        date_str |-> date_str,
        unmerged_commits |-> 0,
        contributors |-> <<>>,
        commit_details |-> <<>>,
        keys |-> {"name", "full_name", "date", "date_str"}]

\* get_recent_branches, from the output of the listing
get_recent_branches(self, output) ==
    LET Kept(line) == LineVerdict(self, line) = "keep"
    IN MapSeq(SelectSeq(Split(output, "\n"), Kept), BranchEntry)

\* remote_branch of get_unmerged_commits, get_unmerged_commit_details and
\* get_contributors
RemoteBranch(branch_name) ==
    IF StartsWith(branch_name, ORIGIN) THEN branch_name ELSE ORIGIN \o branch_name

\* The command lines of the three log queries
UnmergedCommitsCmd(self, branch_name) ==
    LogCmd("log_oneline", self.base_branch, RemoteBranch(branch_name))

CommitDetailsCmd(self, branch_name) ==
    LogCmd("log_details", self.base_branch, RemoteBranch(branch_name))

ContributorsCmd(self, branch_name) ==
    LogCmd("log_authors", self.base_branch, RemoteBranch(branch_name))

\* get_unmerged_commits, from the output of its query
get_unmerged_commits(output) ==
    IF output = <<>> THEN 0 ELSE Len(Split(output, "\n"))

\* get_unmerged_commit_details, from the output of its query
CommitRecord(line) ==
    LET parts == Split(line, "|")
    IN [hash |-> parts[1], author_name |-> parts[2], author_email |-> parts[3],
        subject |-> parts[4], date |-> parts[5]]

get_unmerged_commit_details(output) ==
    LET Wellformed(line) == line # <<>> /\ Len(Split(line, "|")) = 5
    IN IF output = <<>> THEN <<>>
       ELSE MapSeq(SelectSeq(Split(output, "\n"), Wellformed), CommitRecord)

\* get_contributors, lines 138-144: the lines not seen before, in order
RECURSIVE Unique(_, _)
Unique(lines, seen) ==
    IF lines = <<>> THEN <<>>
    ELSE IF Head(lines) # <<>> /\ Head(lines) \notin seen
    THEN <<Head(lines)>> \o Unique(Tail(lines), seen \cup {Head(lines)})
    ELSE Unique(Tail(lines), seen)

\* get_contributors, as it would be if every line of the log were kept
get_contributors_every_line(output) ==
    IF output = <<>> THEN <<>> ELSE Split(output, "\n")

\* get_contributors, from the output of its query
get_contributors(output) ==
    IF output = <<>> THEN <<>> ELSE Unique(Split(output, "\n"), {})

\* list.sort(key=lambda x: x['date'], reverse=True): stable, newest first
RECURSIVE InsertByDate(_, _)
InsertByDate(sorted, x) ==
    IF sorted = <<>> THEN <<x>>
    ELSE IF Head(sorted).date >= x.date
    THEN <<Head(sorted)>> \o InsertByDate(Tail(sorted), x)
    ELSE <<x>> \o sorted

RECURSIVE SortByDate(_)
SortByDate(rows) ==
    IF rows = <<>> THEN <<>>
    ELSE InsertByDate(SortByDate(SubSeq(rows, 1, Len(rows) - 1)), rows[Len(rows)])

\* base_branch_name of analyze, as it would be if it were left empty, so that
\* no entry is taken for the base branch
BaseBranchNameEmpty(self) == <<>>

\* base_branch_name of analyze
BaseBranchName(self) == Replace(self.base_branch, ORIGIN, <<>>)

\* What a query gives its method when nothing outside the repository goes
\* wrong
Answer(tracking, cmd) == run_git_command(NaturalOutcome(tracking, cmd))

\* analyze, lines 180-190: the row made of one entry of recent_branches
EnrichedRow(self, call, tracking, branch) ==
    LET counted == [branch EXCEPT
                       !.unmerged_commits =
                           get_unmerged_commits(
                               Answer(tracking, UnmergedCommitsCmd(self, branch.name))),
                       !.keys = @ \cup {"unmerged_commits"}]
        credited == IF call.include_contributors
                    THEN [counted EXCEPT
                             !.contributors =
                                 get_contributors(
                                     Answer(tracking, ContributorsCmd(self, branch.name))),
                             !.keys = @ \cup {"contributors"}]
                    ELSE counted
    IN IF call.include_commit_details
       THEN [credited EXCEPT
                !.commit_details =
                    get_unmerged_commit_details(
                        Answer(tracking, CommitDetailsCmd(self, branch.name))),
                !.keys = @ \cup {"commit_details"}]
       ELSE credited

\* analyze, lines 169-195, as a function of the local state: what
\* analyze(fetch=False) returns on a repository when nothing outside it goes
\* wrong
analyze(self, call, tracking) ==
    LET recent == get_recent_branches(self, Answer(tracking, BranchCmd))
        Unmerged(branch) ==
            /\ branch.name # BaseBranchName(self)
            /\ get_unmerged_commits(
                   Answer(tracking, UnmergedCommitsCmd(self, branch.name))) > 0
        Row(branch) == EnrichedRow(self, call, tracking, branch)
    IN SortByDate(MapSeq(SelectSeq(recent, Unmerged), Row))

----------------------------------------------------------------------------
(* The program: main() of cli.py and GitUnmerged.analyze *)

VARIABLES
    pc,                 \* where the program is
    path,               \* --repo as found on disk: "ok", "missing" or "nogit"
    args,               \* the parsed command line, while main() still reads it
    stderr,             \* what main() has written to the error stream
    exit_code,          \* the status of sys.exit, -1 while running
    self,               \* the analyzer: base_branch, ignore_pattern, days
    call,               \* the arguments of analyze
    tracking,           \* the remote-tracking branches of the repository
    failures,           \* executions of git that failed for an outside reason
    queries,            \* the git commands run so far, each with how it ended
    recent_branches,    \* analyze: recent_branches
    i,                  \* analyze: position of the for loop in recent_branches
    unmerged_branches,  \* analyze: unmerged_branches
    result              \* what analyze returned

vars == <<pc, path, args, stderr, exit_code, self, call, tracking, failures,
          queries, recent_branches, i, unmerged_branches, result>>

NoArgs == [base_branch |-> <<>>, ignore_pattern |-> <<>>, days |-> 0,
           no_fetch |-> FALSE, verbose |-> FALSE]
NoAnalyzer == GitUnmerged(<<>>, None, 0)
NoCall == [fetch |-> FALSE, include_contributors |-> FALSE, include_commit_details |-> FALSE]

\* The configurations considered
BaseBranches == {ORIGIN \o <<"dev">>, <<"dev">>, <<"upstream", "/", "dev">>}
IgnorePatterns == {<<"-eld">>, <<"2024-01-02">>}
DaysValues == {0, 1}

Analyzers ==
    {GitUnmerged(b, p, d) : b \in BaseBranches,
                            p \in {None} \cup {Some(x) : x \in IgnorePatterns},
                            d \in DaysValues}

Calls == [fetch : BOOLEAN, include_contributors : BOOLEAN, include_commit_details : BOOLEAN]

CommandLines ==
    [base_branch : BaseBranches, ignore_pattern : {<<>>} \cup IgnorePatterns,
     days : DaysValues, no_fetch : BOOLEAN, verbose : BOOLEAN]

Idle ==
    /\ stderr = <<>>
    /\ exit_code = -1
    /\ failures = 0
    /\ queries = <<>>
    /\ recent_branches = <<>>
    /\ i = 1
    /\ unmerged_branches = <<>>
    /\ result = <<>>

\* The program is started from the command line ...
InitMain ==
    /\ pc = "main"
    /\ args \in CommandLines
    /\ \/ path = "ok" /\ tracking \in Repositories
       \/ path \in {"missing", "nogit"} /\ tracking = {}
    /\ self = NoAnalyzer
    /\ call = NoCall
    /\ Idle

\* ... or analyze is called on an analyzer of a repository
InitAnalyze ==
    /\ pc = "analyze"
    /\ args = NoArgs
    /\ path = "ok"
    /\ tracking \in Repositories
    /\ self \in Analyzers
    /\ call \in Calls
    /\ Idle

Init == InitMain \/ InitAnalyze

\* main, lines 95-104: the analyzer main makes of its arguments
MainAnalyzer(a) ==
    GitUnmerged(a.base_branch,
                IF a.ignore_pattern # <<>> THEN Some(a.ignore_pattern) ELSE None,
                a.days)

\* main, lines 114-118: the arguments main gives analyze
MainCall(a) ==
    [fetch |-> ~a.no_fetch, include_contributors |-> TRUE,
     include_commit_details |-> a.verbose]

\* MainPathMissing, as it would be if the diagnostic were written and main
\* went on
MainPathMissingGoesOn ==
    /\ pc = "main"
    /\ path = "missing"
    /\ stderr' = <<"Error: Repository path ", "does not exist", ": ", "repo_path">>
    /\ self' = MainAnalyzer(args)
    /\ call' = MainCall(args)
    /\ args' = NoArgs
    /\ pc' = "analyze"
    /\ UNCHANGED <<path, exit_code, tracking, failures, queries,
                   recent_branches, i, unmerged_branches, result>>

\* main, lines 84-88: the repository path does not exist
MainPathMissing ==
    /\ pc = "main"
    /\ path = "missing"
    /\ stderr' = <<"Error: Repository path ", "does not exist", ": ", "repo_path">>
    /\ exit_code' = 1
    /\ pc' = "exit"
    /\ UNCHANGED <<path, args, self, call, tracking, failures, queries,
                   recent_branches, i, unmerged_branches, result>>

\* main, lines 90-93: the path has no .git entry
MainNotARepository ==
    /\ pc = "main"
    /\ path = "nogit"
    /\ stderr' = <<"Error: Not a git repository: ", "repo_path">>
    /\ exit_code' = 1
    /\ pc' = "exit"
    /\ UNCHANGED <<path, args, self, call, tracking, failures, queries,
                   recent_branches, i, unmerged_branches, result>>

\* main, lines 95-118: the analyzer is made and analyze is called
MainAnalyze ==
    /\ pc = "main"
    /\ path = "ok"
    /\ self' = MainAnalyzer(args)
    /\ call' = MainCall(args)
    /\ args' = NoArgs
    /\ pc' = "analyze"
    /\ UNCHANGED <<path, stderr, exit_code, tracking, failures, queries,
                   recent_branches, i, unmerged_branches, result>>

\* One execution of run_git_command: the command is logged with its outcome
\* and with what the method that ran it returned to its caller
Executes(cmd, outcome, returned) ==
    /\ queries' = Append(queries, [cmd |-> cmd, kind |-> outcome.kind,
                                   stdout |-> outcome.stdout, returned |-> returned])
    /\ failures' = IF Failed(outcome) /\ GitSucceeds(tracking, cmd)
                   THEN failures + 1 ELSE failures

\* What the remotes hold that a fetch brings: origin has feature/a
Fetchable == {OriginFeatureA}

\* FetchRemote, as it would be if a failed fetch ended analyze with no rows
FetchRemoteStopsOnFailure ==
    /\ pc = "analyze"
    /\ call.fetch
    /\ \E outcome \in Outcomes(tracking, FetchCmd, failures < MaxFailures) :
        /\ Executes(FetchCmd, outcome, <<>>)
        /\ tracking' = IF Failed(outcome) THEN tracking ELSE tracking \cup Fetchable
        /\ pc' = IF Failed(outcome) THEN "done" ELSE "list"
    /\ UNCHANGED <<path, args, stderr, exit_code, self, call,
                   recent_branches, i, unmerged_branches, result>>

\* analyze, lines 166-167: fetch_remote
FetchRemote ==
    /\ pc = "analyze"
    /\ call.fetch
    /\ \E outcome \in Outcomes(tracking, FetchCmd, failures < MaxFailures) :
        /\ Executes(FetchCmd, outcome, <<>>)
        /\ tracking' = IF Failed(outcome) THEN tracking ELSE tracking \cup Fetchable
    /\ pc' = "list"
    /\ UNCHANGED <<path, args, stderr, exit_code, self, call,
                   recent_branches, i, unmerged_branches, result>>

\* analyze, line 169: get_recent_branches
GetRecentBranches ==
    /\ \/ pc = "list"
       \/ pc = "analyze" /\ ~call.fetch
    /\ \E outcome \in Outcomes(tracking, BranchCmd, failures < MaxFailures) :
        /\ recent_branches' = get_recent_branches(self, run_git_command(outcome))
        /\ Executes(BranchCmd, outcome, recent_branches')
    /\ i' = 1
    /\ pc' = "loop"
    /\ UNCHANGED <<path, args, stderr, exit_code, self, call, tracking,
                   unmerged_branches, result>>

\* The end of one iteration of the for loop: the row is appended
AppendRow(rows) ==
    /\ recent_branches' = rows
    /\ unmerged_branches' = Append(unmerged_branches, rows[i])
    /\ i' = i + 1
    /\ pc' = "loop"

\* analyze, lines 176-178: the base branch is skipped
SkipBaseBranch ==
    /\ pc = "loop"
    /\ i <= Len(recent_branches)
    /\ recent_branches[i].name = BaseBranchName(self)
    /\ i' = i + 1
    /\ UNCHANGED <<pc, path, args, stderr, exit_code, self, call, tracking, failures,
                   queries, recent_branches, unmerged_branches, result>>

\* analyze, lines 180-190: get_unmerged_commits of the branch
CountUnmerged ==
    /\ pc = "loop"
    /\ i <= Len(recent_branches)
    /\ recent_branches[i].name # BaseBranchName(self)
    /\ LET cmd == UnmergedCommitsCmd(self, recent_branches[i].name) IN
       \E outcome \in Outcomes(tracking, cmd, failures < MaxFailures) :
        LET unmerged_count == get_unmerged_commits(run_git_command(outcome)) IN
        /\ Executes(cmd, outcome, unmerged_count)
        /\ LET rows == [recent_branches EXCEPT
                           ![i].unmerged_commits = unmerged_count,
                           ![i].keys = @ \cup {"unmerged_commits"}]
           IN IF unmerged_count > 0
              THEN IF call.include_contributors
                   THEN /\ recent_branches' = rows
                        /\ pc' = "contributors"
                        /\ UNCHANGED <<i, unmerged_branches>>
                   ELSE IF call.include_commit_details
                   THEN /\ recent_branches' = rows
                        /\ pc' = "details"
                        /\ UNCHANGED <<i, unmerged_branches>>
                   ELSE AppendRow(rows)
              ELSE /\ i' = i + 1
                   /\ UNCHANGED <<pc, recent_branches, unmerged_branches>>
    /\ UNCHANGED <<path, args, stderr, exit_code, self, call, tracking, result>>

\* analyze, lines 184-185: get_contributors of the branch
Contributors ==
    /\ pc = "contributors"
    /\ LET cmd == ContributorsCmd(self, recent_branches[i].name) IN
       \E outcome \in Outcomes(tracking, cmd, failures < MaxFailures) :
        LET contributors == get_contributors(run_git_command(outcome)) IN
        /\ Executes(cmd, outcome, contributors)
        /\ LET rows == [recent_branches EXCEPT
                           ![i].contributors = contributors,
                           ![i].keys = @ \cup {"contributors"}]
           IN IF call.include_commit_details
              THEN /\ recent_branches' = rows
                   /\ pc' = "details"
                   /\ UNCHANGED <<i, unmerged_branches>>
              ELSE AppendRow(rows)
    /\ UNCHANGED <<path, args, stderr, exit_code, self, call, tracking, result>>

\* analyze, lines 187-190: get_unmerged_commit_details of the branch
CommitDetails ==
    /\ pc = "details"
    /\ LET cmd == CommitDetailsCmd(self, recent_branches[i].name) IN
       \E outcome \in Outcomes(tracking, cmd, failures < MaxFailures) :
        LET commit_details == get_unmerged_commit_details(run_git_command(outcome)) IN
        /\ Executes(cmd, outcome, commit_details)
        /\ AppendRow([recent_branches EXCEPT
                         ![i].commit_details = commit_details,
                         ![i].keys = @ \cup {"commit_details"}])
    /\ UNCHANGED <<path, args, stderr, exit_code, self, call, tracking, result>>

\* analyze, lines 192-195: the rows are sorted and returned
SortAndReturn ==
    /\ pc = "loop"
    /\ i > Len(recent_branches)
    /\ result' = SortByDate(unmerged_branches)
    /\ pc' = "done"
    /\ UNCHANGED <<path, args, stderr, exit_code, self, call, tracking, failures,
                   queries, recent_branches, i, unmerged_branches>>

Next ==
    \/ MainPathMissing
    \/ MainNotARepository
    \/ MainAnalyze
    \/ FetchRemote
    \/ GetRecentBranches
    \/ SkipBaseBranch
    \/ CountUnmerged
    \/ Contributors
    \/ CommitDetails
    \/ SortAndReturn

Spec == Init /\ [][Next]_vars

----------------------------------------------------------------------------
(* The properties claimed of the program *)

Rows == Range(result)

\* The executions of git logged so far
Executions == Range(queries)

IsLog(q, kind) == q.cmd.kind = kind

\* The remotes of the repository
Remotes == {"origin", "upstream"}

\* A branch name with its leading remote qualifier removed
StripRemote(name) ==
    IF Len(name) > 2 /\ name[1] \in Remotes /\ name[2] = "/" THEN Drop(name, 2) ELSE name

\* The lines of the branch listing as get_recent_branches read them
ListingLines(q) == Range(Split(run_git_command(q), "\n"))

\* C1: for one branch and one state of the repository, the number of records
\* get_unmerged_commit_details returns equals the number
\* get_unmerged_commits returns, whatever the commits' subjects and authors
\* contain; so every row with commit_details has as many of them as
\* unmerged_commits says.
C1_DetailsMatchCount ==
    /\ \A q1 \in Executions : \A q2 \in Executions :
          /\ IsLog(q1, "log_oneline") /\ IsLog(q2, "log_details")
          /\ q1.cmd.base = q2.cmd.base /\ q1.cmd.branch = q2.cmd.branch
          /\ q1.kind = "ok" /\ q2.kind = "ok"
          => Len(q2.returned) = q1.returned
    /\ pc = "done" /\ failures = 0
          => \A r \in Rows : "commit_details" \in r.keys
                => Len(r.commit_details) = r.unmerged_commits

\* C2: no row of analyze() is named like the base branch with its remote
\* qualifier stripped, whether base_branch was given with the qualifier or
\* without it.
C2_BaseNameAbsent ==
    pc = "done" => \A r \in Rows : r.name # StripRemote(self.base_branch)

\* C3: when analyze() has returned with a non-empty ignore_pattern, no entry
\* that get_recent_branches() gave it and no row has a full_name containing
\* the pattern; with no pattern (None, or the empty --ignore-pattern that main
\* maps to None) the ignore filter skipped no line of the listing.
C3_IgnorePattern ==
    /\ pc = "done" /\ Truthy(self.ignore_pattern)
          => \A r \in Range(recent_branches) \cup Rows :
                ~Contains(r.full_name, self.ignore_pattern.val)
    /\ pc = "done" /\ ~Truthy(self.ignore_pattern)
          => \A q \in Executions : IsLog(q, "branch")
                => \A line \in ListingLines(q) : LineVerdict(self, line) # "ignored"
    /\ pc = "main" /\ args.ignore_pattern = <<>>
          => MainAnalyzer(args).ignore_pattern = None

\* C3, its case: an analysis with an ignore pattern of a repository holding
\* a branch the pattern matches, which ends with a row
C3_Witness ==
    /\ pc = "done"
    /\ failures = 0
    /\ Truthy(self.ignore_pattern)
    /\ OriginXEld \in tracking
    /\ result # <<>>

\* The rows are reported for the remote-tracking branch full_name names
BranchOf(r) == r.full_name

\* C4: every row of analyze() has unmerged_commits > 0, and a branch with no
\* commit reachable from its tip and not from the base branch has no row,
\* whatever the flags of the call.
C4_NoMergedBranch ==
    pc = "done" =>
        \A r \in Rows :
            /\ r.unmerged_commits > 0
            /\ Resolves(tracking, self.base_branch)
                  => RevList(tracking, self.base_branch, BranchOf(r)) # <<>>

\* C5: the rows of analyze() are in order of tip-commit time, newest first:
\* the tip of each row was committed no earlier than the tip of the next.
C5_NewestFirst ==
    pc = "done" =>
        \A k \in 1..(Len(result) - 1) :
            Instant(result[k].date_str) >= Instant(result[k + 1].date_str)

\* The distinct elements of a sequence, each at the place of its first
\* occurrence
FirstOccurrences(s) ==
    LET first == {k \in DOMAIN s : \A j \in 1..(k - 1) : s[j] # s[k]}
        Pick[n \in 0..Len(s)] ==
            IF n = 0 THEN <<>>
            ELSE IF n \in first THEN Append(Pick[n - 1], s[n]) ELSE Pick[n - 1]
    IN Pick[Len(s)]

NoDuplicates(s) == \A j \in DOMAIN s : \A k \in DOMAIN s : j # k => s[j] # s[k]

\* The "name <email>" strings of the commits of a range, as the log has them
Authors(base, branch) == MapSeq(RevList(tracking, base, branch), AuthorFormat)

\* C6: every call of get_contributors made by an analysis returned, without
\* repetition, exactly the distinct "name <email>" strings of the commits of
\* the range it asked for, each at the place of its first occurrence in the
\* log; a row's contributors are that list.
C6_Contributors ==
    /\ pc = "done"
          => \A q \in Executions : IsLog(q, "log_authors") /\ q.kind = "ok"
                => /\ NoDuplicates(q.returned)
                   /\ q.returned = FirstOccurrences(Authors(q.cmd.base, q.cmd.branch))
    /\ pc = "done" /\ failures = 0
          => \A r \in Rows : "contributors" \in r.keys
                => r.contributors =
                     FirstOccurrences(Authors(self.base_branch, RemoteBranch(r.name)))

\* C6, its case: the contributors of a branch on which one author has two
\* commits were asked for and returned
C6_Witness ==
    pc = "done" /\ \E q \in Executions :
        /\ IsLog(q, "log_authors") /\ q.kind = "ok"
        /\ Len(RevList(tracking, q.cmd.base, q.cmd.branch)) = 3
        /\ Len(q.returned) = 2

\* C7: no two rows of analyze() have the same name.
C7_NamesDistinct ==
    pc = "done" =>
        \A j \in DOMAIN result : \A k \in DOMAIN result :
            j # k => result[j].name # result[k].name

\* What a method returns for "no data"
NoData(q) == IF IsLog(q, "log_oneline") THEN q.returned = 0 ELSE q.returned = <<>>

\* C8: when an execution of git fails (it cannot be started, or exits with a
\* non-zero status, with or without output), the method that ran it returns
\* no data: 0 from get_unmerged_commits, an empty list from the others.
C8_FailureIsNoData ==
    \A q \in Executions : q.kind # "ok" => NoData(q)

\* C9: every entry of get_recent_branches() has a tip committed at or after
\* now - days; with days = 0 and every tip committed before now,
\* get_recent_branches() and analyze() return nothing.
C9_RecentOnly ==
    /\ \A r \in Range(recent_branches) :
          Instant(r.date_str) >= Now - Timedelta(self.days)
    /\ self.days = 0 /\ (\A b \in tracking : Instant(b.date) < Now)
          => recent_branches = <<>> /\ result = <<>>

\* C10: started with a --repo path that does not exist, main writes a
\* diagnostic containing "does not exist" to the error stream and exits with
\* a non-zero status; with a path that has no .git entry it exits with a
\* non-zero status too; in both cases no git command is run.
C10_InvalidRepository ==
    /\ path # "ok" => queries = <<>> /\ pc \in {"main", "exit"}
    /\ pc = "exit" => exit_code > 0 /\ path # "ok"
    /\ pc = "exit" /\ path = "missing" => "does not exist" \in Range(stderr)

\* C10, its case: main has exited on a path that does not exist
C10_Witness ==
    /\ pc = "exit"
    /\ path = "missing"
    /\ exit_code = 1

\* The fetch of this analysis failed, and nothing else did
OnlyFetchFailed ==
    /\ call.fetch
    /\ queries # <<>>
    /\ IsLog(queries[1], "fetch") /\ queries[1].kind # "ok"
    /\ failures = 1

\* C11: a fetch that fails is not raised and does not stop analyze: the
\* listing follows it on the unchanged remote-tracking branches, and
\* analyze(fetch=True) returns the rows, in the order, that
\* analyze(fetch=False) returns on that local state.
C11_FetchFailureGoesOn ==
    /\ OnlyFetchFailed /\ Len(queries) = 1 => pc = "list" /\ result = <<>>
    /\ OnlyFetchFailed /\ pc = "done" => result = analyze(self, call, tracking)
    /\ ~call.fetch /\ failures = 0 /\ pc = "done"
          => result = analyze(self, call, tracking)

\* C11, its case: an analysis whose fetch failed has returned rows of more
\* than one branch
C11_Witness ==
    /\ OnlyFetchFailed
    /\ pc = "done"
    /\ Len(result) > 1

\* The branch name of a line of the listing: what precedes the "|"
BranchNameOf(line) == Strip(Split(line, "|")[1])

\* C12: the ignore filter of get_recent_branches() rejects a line of the
\* listing exactly when the branch name of the line contains ignore_pattern,
\* whatever the commit-date field of the line holds.
C12_IgnoreByNameOnly ==
    \A q \in Executions : IsLog(q, "branch")
        => \A line \in ListingLines(q) : line # <<>>
              => (LineVerdict(self, line) = "ignored"
                    <=> /\ Truthy(self.ignore_pattern)
                        /\ Contains(BranchNameOf(line), self.ignore_pattern.val))

\* The remote's own symbolic entry ("origin") or a symbolic HEAD ref
\* ("origin/HEAD")
SymbolicRef(name) ==
    \/ Len(name) = 1 /\ name[1] \in Remotes
    \/ Len(name) > 1 /\ name[Len(name)] = "HEAD" /\ name[Len(name) - 1] = "/"

\* A listed branch get_recent_branches() has to return: the ignore filter
\* lets its line pass, it is no symbolic entry, its timestamp parses and
\* its tip was committed inside the window
Eligible(b) ==
    /\ ~Ignored(self, BranchFormat(b))
    /\ ~SymbolicRef(b.ref)
    /\ IsIsoFormat(SubSeq(b.date, 1, 3))
    /\ Instant(b.date) >= Now - Timedelta(self.days)

\* The listing of this analysis was made, and no execution of git failed for
\* an outside reason
Listed == failures = 0 /\ \E q \in Executions : IsLog(q, "branch")

\* The base branch itself: the ref base_branch names, or the branch of the
\* default remote that base_branch names without its qualifier
IsBase(ref) == ref = self.base_branch \/ ref = ORIGIN \o self.base_branch

\* C13: get_recent_branches() returns every listed branch that the ignore
\* filter lets pass, that is no symbolic entry, whose timestamp parses and
\* that lies inside the window, a branch whose name merely contains "HEAD"
\* included; so every such branch other than the base with a commit ahead
\* of the base has a row of analyze().
C13_ListingComplete ==
    /\ Listed
          => \A b \in tracking : Eligible(b)
                => \E e \in Range(recent_branches) : e.full_name = b.ref
    /\ Listed /\ pc = "done" /\ Resolves(tracking, self.base_branch)
          => \A b \in tracking :
                /\ Eligible(b)
                /\ ~IsBase(b.ref)
                /\ RevList(tracking, self.base_branch, b.ref) # <<>>
                => \E r \in Rows : r.full_name = b.ref

\* A query of the given kind was made over the range base_branch..ref
QueriedOver(kind, ref) ==
    \E q \in Executions :
        IsLog(q, kind) /\ q.cmd.base = self.base_branch /\ q.cmd.branch = ref

\* C14: in every row of analyze(), name is full_name without its leading
\* remote qualifier, and unmerged_commits, contributors and commit_details
\* come from queries over base_branch..full_name, the ref the listing
\* reported, whatever the remote and the branch name.
C14_RowOfListedRef ==
    pc = "done" =>
        \A r \in Rows :
            /\ r.name = StripRemote(r.full_name)
            /\ QueriedOver("log_oneline", r.full_name)
            /\ "contributors" \in r.keys => QueriedOver("log_authors", r.full_name)
            /\ "commit_details" \in r.keys => QueriedOver("log_details", r.full_name)

\* The place of the listing in the log: after the fetch, if there is one
ListingAt == IF call.fetch THEN 2 ELSE 1

\* The k-th query is of the given kind, on the branch of the j-th
Follows(k, kind, j) ==
    IsLog(queries[k], kind) /\ queries[k].cmd.branch = queries[j].cmd.branch

\* The kind of query that comes after the k-th, "log_oneline" standing for
\* the count query of a later branch
KindAfter(k) ==
    LET q == queries[k] IN
    IF IsLog(q, "log_oneline")
    THEN IF q.returned > 0 /\ call.include_contributors THEN "log_authors"
         ELSE IF q.returned > 0 /\ call.include_commit_details THEN "log_details"
         ELSE "log_oneline"
    ELSE IF IsLog(q, "log_authors") /\ call.include_commit_details THEN "log_details"
    ELSE "log_oneline"

\* The entries of the listing that are not the base branch's own
NonBaseEntries ==
    LET NotBase(e) == ~IsBase(e.full_name)
    IN SelectSeq(queries[ListingAt].returned, NotBase)

CountQueries ==
    LET IsCount(q) == IsLog(q, "log_oneline") IN SelectSeq(queries, IsCount)

====
